---- MODULE Spec2Model ----
(***************************************************************************)
(* Model of the coderr marketplace backend: registration, login and       *)
(* profiles (auth_app) and the Offer / OfferDetail catalogue, the orders   *)
(* and the reviews (marketplace_app).  The relational store is the state;  *)
(* every REST handler is one action.  Column values are small integers;    *)
(* 0 stands for the empty default of a column ('' for a CharField, [] for  *)
(* the JSON list).                                                         *)
(***************************************************************************)
EXTENDS Integers, Naturals, Sequences, FiniteSets, TLC

\* ---------------------------------------------------------------- bounds
MaxOffers == 1
MaxDetails == 5
MaxOrders == 2
MaxReviews == 2

\* ----------------------------------------------------------- input domains
Vals == {1, 2}
\* request.user of a request without credentials
Anonymous == 0
\* the id of no row: primary keys start at 1
NoId == 0

\* OfferDetail.OFFER_TYPE_CHOICES
OFFER_TYPE_CHOICES == {"basic", "standard", "premium"}

\* the writable sub-fields of an OfferDetail besides offer_type
DetailFields == {"title", "revisions", "delivery_time_in_days", "price", "features"}

\* columns of OfferDetail without a default that are NOT NULL
NotNullFields == {"revisions", "delivery_time_in_days", "price"}

\* the fields OfferDetailSerializer requires on a non-partial request
RequiredDetailKeys == {"title", "revisions", "delivery_time_in_days", "price", "offer_type"}

\* the top-level writable fields of an Offer
OfferFields == {"title", "image", "description"}

VARIABLES users, profiles, tokens, offers, details, nextOfferId, nextDetailId,
          orders, reviews, nextOrderId, nextReviewId, inflight, last

vars == <<users, profiles, tokens, offers, details, nextOfferId, nextDetailId,
          orders, reviews, nextOrderId, nextReviewId, inflight, last>>

\* the tables of auth_app, of the catalogue, and of orders and reviews
accounts == <<users, profiles, tokens>>

catalogue == <<offers, details, nextOfferId, nextDetailId>>

trade == <<orders, reviews, nextOrderId, nextReviewId>>

db == <<accounts, catalogue, trade>>

NoReq == [offer |-> NoId, caller |-> Anonymous, rest |-> <<>>]

\* the last request and its response: the action, who sent it, the HTTP
\* status, the field in error of a 400, the id of the object it names or
\* returns, the token key a registration or login returns, the count an
\* order-count view returns, the min_price and min_delivery_time of the
\* offers a list or retrieve returns, and the price a retrieved order shows
RespT(op, caller, status, err, id, token) ==
    [op |-> op, caller |-> caller, status |-> status, err |-> err, id |-> id,
     token |-> token, count |-> 0, mins |-> {}, price |-> 0]

RespN(op, caller, status, id, count) ==
    [RespT(op, caller, status, "", id, 0) EXCEPT !.count = count]

Resp(op, caller, status, err, id) == RespT(op, caller, status, err, id, 0)

Init ==
    /\ users = {}
    /\ profiles = {}
    /\ tokens = {}
    /\ offers = {}
    /\ details = {}
    /\ nextOfferId = 1
    /\ nextDetailId = 1
    /\ orders = {}
    /\ reviews = {}
    /\ nextOrderId = 1
    /\ nextReviewId = 1
    /\ inflight = NoReq
    /\ last = Resp("none", Anonymous, 0, "", NoId)

\* ------------------------------------------------------------ registration

\* UniqueValidator that ModelSerializer derives from User.username (unique);
\* User.email carries no unique constraint, so UserSerializer checks none.
UsernameTaken(username) == \E u \in users : u.username = username

\* UserSerializer.validate
PasswordsMatch(password, repeated_password) == password = repeated_password

\* a User row as User.objects.create_user leaves it: the names are '' and
\* the user is no staff member
NewUser(id, username, email, password) ==
    [id |-> id, username |-> username, email |-> email, password |-> password,
     first_name |-> 0, last_name |-> 0, is_staff |-> FALSE]

\* a UserProfile row as UserProfile.objects.create(user=, type=) leaves it:
\* the other columns take their defaults, and created_at (auto_now_add) is
\* the logical time of the INSERT, the number of the registration
NewProfile(id, type) ==
    [user |-> id, type |-> type, file |-> 0, location |-> 0, tel |-> 0,
     description |-> 0, working_hours |-> 0, created_at |-> id]

\* create as RegisterSerializer.create does it: the type is dropped and the
\* profile gets the column default
CreateUser_defaulttype(id, username, email, password, type) ==
    /\ users' = users \cup {NewUser(id, username, email, password)}
    /\ profiles' = profiles \cup {NewProfile(id, "customer")}

\* UserSerializer.create: User.objects.create_user, UserProfile.objects.create
CreateUser(id, username, email, password, type) ==
    /\ users' = users \cup {NewUser(id, username, email, password)}
    /\ profiles' = profiles \cup {NewProfile(id, type)}

\* a token created at every call, whether the user has one or not
GetOrCreateToken_alwayscreate(uid) ==
    tokens \cup {[user |-> uid, key |-> Cardinality(tokens) + 1]}

\* Token.objects.get_or_create(user=user): the key is fresh for a new user
GetOrCreateToken(uid) ==
    IF \E t \in tokens : t.user = uid
    THEN tokens
    ELSE tokens \cup {[user |-> uid, key |-> Cardinality(tokens) + 1]}

\* RegisterView.post
Register(username, email, password, repeated_password, type) ==
    /\ IF UsernameTaken(username)
       THEN /\ last' = Resp("register", Anonymous, 400, "username", NoId)
            /\ UNCHANGED <<users, profiles, tokens>>
       ELSE IF ~PasswordsMatch(password, repeated_password)
       THEN /\ last' = Resp("register", Anonymous, 400, "repeated_password", NoId)
            /\ UNCHANGED <<users, profiles, tokens>>
       ELSE LET id == Cardinality(users) + 1 IN
            /\ CreateUser(id, username, email, password, type)
            /\ tokens' = GetOrCreateToken(id)
            /\ last' = RespT("register", Anonymous, 201, "", id,
                             (CHOOSE t \in tokens' : t.user = id).key)
    /\ UNCHANGED <<offers, details, nextOfferId, nextDetailId, inflight, trade>>

\* --------------------------------------------------------- request inputs

\* a detail dict of a request body: the keys K carry the value v, and
\* offer_type is present unless t is "None"
Entry(K, v, t) ==
    [k \in K \cup (IF t = "None" THEN {} ELSE {"offer_type"}) |->
        IF k = "offer_type" THEN t ELSE v]

Full(t, v) == Entry(DetailFields, v, t)

\* a request body: the top-level fields it carries, its details list when it
\* has one, and an owner the client may try to smuggle in
Body(fields, hasDetails, dets, owner) ==
    [fields |-> fields, hasDetails |-> hasDetails, details |-> dets, owner |-> owner]

TopFields(K, v) == [k \in K |-> v]

Uniform(v) == <<Full("basic", v), Full("standard", v), Full("premium", v)>>

Mixed == <<Full("premium", 2), Full("basic", 1), Full("standard", 1)>>

\* details lists that validate_details rejects on a non-partial request
BadLists ==
    { <<Full("basic", 1), Full("standard", 1)>>,
      <<Full("basic", 1), Full("standard", 1), Full("premium", 1), Full("basic", 2)>>,
      <<Full("basic", 1), Full("basic", 2), Full("premium", 1)>>,
      <<Full("basic", 1), Full("standard", 1), Full("gold", 1)>>,
      <<Full("basic", 1), Full("standard", 1), Entry(DetailFields, 1, "None")>>,
      <<>> }

PartialLists ==
    { <<Entry({"price"}, v, "basic")>> : v \in Vals } \cup
    { <<Entry(NotNullFields, 1, "None")>>,
      <<Entry({"price"}, 1, "None")>>,
      <<Entry(NotNullFields, 1, "None"), Entry(NotNullFields, 1, "None")>>,
      <<Entry(DetailFields, 2, "basic"), Entry({"price"}, 1, "basic")>>,
      <<Entry({"price"}, 2, "basic"), Entry({"price"}, 1, "None")>>,
      <<Entry({"price"}, 1, "gold")>>,
      <<>> }

\* bodies of POST /offers/ and PUT /offers/{id}/
FullBodies ==
    { Body(TopFields(OfferFields, 1), TRUE, Uniform(1), o) : o \in {NoId, 1, 2} } \cup
    { Body(TopFields(OfferFields, 1), TRUE, l, NoId) : l \in BadLists } \cup
    { Body(TopFields(OfferFields, 1), TRUE, Mixed, NoId),
      Body(TopFields({"image", "description"}, 1), TRUE, Uniform(1), NoId),
      Body(TopFields(OfferFields, 1), FALSE, <<>>, NoId) }

\* bodies of PATCH /offers/{id}/
PartialBodies ==
    { Body(TopFields({}, 1), TRUE, l, NoId) : l \in PartialLists } \cup
    { Body(TopFields(OfferFields, 2), FALSE, <<>>, o) : o \in {NoId, 1} } \cup
    { Body(TopFields(OfferFields, 2), TRUE, <<Entry({"price"}, 1, "None")>>, NoId) }

\* bodies of POST /auth/registration/
Registrations ==
    { [username |-> "a", email |-> "x", type |-> "business"],
      [username |-> "a", email |-> "y", type |-> "customer"],
      [username |-> "b", email |-> "x", type |-> "customer"] }

\* ------------------------------------------------------------ the catalogue

\* permissions.IsAuthenticated: the token authentication resolved a user
IsAuthenticated(caller) == \E t \in tokens : t.user = caller

\* get_permissions asking for authentication on create only
OfferPermitted_createonly(action, caller) ==
    IF action \in {"create"}
    THEN IsAuthenticated(caller)
    ELSE TRUE

\* OfferViewSet.get_permissions
OfferPermitted(action, caller) ==
    IF action \in {"create", "update", "partial_update", "destroy"}
    THEN IsAuthenticated(caller)
    ELSE TRUE

DetailsOf(rows, offerId) == {d \in rows : d.offer = offerId}

TypesOf(rows, offerId) == {d.offer_type : d \in DetailsOf(rows, offerId)}

Get(d, k, default) == IF k \in DOMAIN d THEN d[k] ELSE default

\* the field checks of OfferDetailSerializer, run on every entry before
\* validate_details: required keys (skipped under a partial root) and the
\* ChoiceField of offer_type
EntryValid(d, partial) ==
    /\ partial \/ RequiredDetailKeys \subseteq DOMAIN d
    /\ "offer_type" \in DOMAIN d => d["offer_type"] \in OFFER_TYPE_CHOICES

\* validate_details without its length check
validate_details_nolen(value, partial) ==
    IF ~partial
    THEN {Get(value[i], "offer_type", "None") : i \in 1..Len(value)} = OFFER_TYPE_CHOICES
    ELSE TRUE

\* validate_details without its comparison of the type sets
validate_details_noset(value, partial) ==
    IF ~partial THEN Len(value) = 3 ELSE TRUE

\* OfferSerializer.validate_details
validate_details(value, partial) ==
    IF ~partial
    THEN /\ Len(value) = 3
         /\ {value[i]["offer_type"] : i \in 1..Len(value)} = OFFER_TYPE_CHOICES
    ELSE TRUE

\* OfferSerializer.is_valid: the name of the first field in error, "" if none
ValidationError(body, partial) ==
    IF ~partial /\ "title" \notin DOMAIN body.fields THEN "title"
    ELSE IF ~partial /\ ~body.hasDetails THEN "details"
    ELSE IF body.hasDetails /\ \E i \in 1..Len(body.details) : ~EntryValid(body.details[i], partial)
         THEN "details"
    ELSE IF body.hasDetails /\ ~validate_details(body.details, partial) THEN "details"
    ELSE ""

\* OfferDetail.objects.create(offer=offer, **detail_data): absent columns take
\* the column default
NewDetail(id, offerId, d) ==
    [id |-> id, offer |-> offerId,
     offer_type |-> Get(d, "offer_type", ""),
     title |-> Get(d, "title", 0),
     revisions |-> Get(d, "revisions", 0),
     delivery_time_in_days |-> Get(d, "delivery_time_in_days", 0),
     price |-> Get(d, "price", 0),
     features |-> Get(d, "features", 0)]

\* the INSERT fails with IntegrityError when a NOT NULL column has no value
CanInsert(d) == NotNullFields \subseteq DOMAIN d

\* the matched branch replacing the row's sub-fields instead of merging them
MergeDetail_replace(old, d) ==
    [old EXCEPT !.title = Get(d, "title", 0),
                !.revisions = Get(d, "revisions", 0),
                !.delivery_time_in_days = Get(d, "delivery_time_in_days", 0),
                !.price = Get(d, "price", 0),
                !.features = Get(d, "features", 0)]

\* OfferSerializer.update, the matched branch: detail_data.get(f, detail.f)
MergeDetail(old, d) ==
    [old EXCEPT !.title = Get(d, "title", old.title),
                !.revisions = Get(d, "revisions", old.revisions),
                !.delivery_time_in_days = Get(d, "delivery_time_in_days", old.delivery_time_in_days),
                !.price = Get(d, "price", old.price),
                !.features = Get(d, "features", old.features)]

\* OfferSerializer.update: existing_details, offer_type -> the row's id (a
\* later row of the same type replaces an earlier one in the dict)
ExistingDetails(rows, offerId) ==
    [t \in TypesOf(rows, offerId) |->
        LET same == {d.id : d \in {x \in DetailsOf(rows, offerId) : x.offer_type = t}}
        IN CHOOSE i \in same : \A j \in same : j <= i]

\* the loop replacing a matched row by a new row instead of updating it
RECURSIVE ApplyDetails_recreate(_, _, _, _, _)
ApplyDetails_recreate(rows, next, data, offerId, existing) ==
    IF data = <<>> THEN [rows |-> rows, next |-> next, ok |-> TRUE]
    ELSE LET d == Head(data)
             offer_type == Get(d, "offer_type", "None")
             old == {r \in rows : offer_type \in DOMAIN existing /\ r.id = existing[offer_type]}
         IN ApplyDetails_recreate((rows \ old) \cup {NewDetail(next, offerId, d)},
                                  next + 1, Tail(data), offerId, existing)

\* OfferSerializer.update: the loop over details_data.  ok is FALSE when an
\* INSERT raised; the rows written before it stay written.
RECURSIVE ApplyDetails(_, _, _, _, _)
ApplyDetails(rows, next, data, offerId, existing) ==
    IF data = <<>> THEN [rows |-> rows, next |-> next, ok |-> TRUE]
    ELSE LET d == Head(data)
             offer_type == Get(d, "offer_type", "None")
         IN IF offer_type \in DOMAIN existing
            THEN LET old == CHOOSE r \in rows : r.id = existing[offer_type]
                 IN ApplyDetails((rows \ {old}) \cup {MergeDetail(old, d)}, next,
                                 Tail(data), offerId, existing)
            ELSE IF ~CanInsert(d)
            THEN [rows |-> rows, next |-> next, ok |-> FALSE]
            ELSE ApplyDetails(rows \cup {NewDetail(next, offerId, d)}, next + 1,
                              Tail(data), offerId, existing)

\* an Offer whose owner is read from the body when the body names one
NewOffer_bodyowner(id, caller, body) ==
    [id |-> id, owner |-> IF body.owner # NoId THEN body.owner ELSE caller,
     title |-> Get(body.fields, "title", 0),
     image |-> Get(body.fields, "image", 0),
     description |-> Get(body.fields, "description", 0)]

\* Offer.objects.create(**validated_data) with owner=request.user from
\* perform_create; the body's own owner is no serializer field
NewOffer(id, caller, body) ==
    [id |-> id, owner |-> caller,
     title |-> Get(body.fields, "title", 0),
     image |-> Get(body.fields, "image", 0),
     description |-> Get(body.fields, "description", 0)]

\* OfferSerializer.create: the loop of OfferDetail.objects.create
RECURSIVE CreateDetails(_, _, _, _)
CreateDetails(rows, next, data, offerId) ==
    IF data = <<>> THEN rows
    ELSE CreateDetails(rows \cup {NewDetail(next, offerId, Head(data))}, next + 1,
                       Tail(data), offerId)

\* POST /offers/ refused: the permission check or is_valid fails
CreateOfferRejected(caller, body) ==
    /\ inflight = NoReq
    /\ IF ~OfferPermitted("create", caller)
       THEN last' = Resp("create", caller, 401, "", NoId)
       ELSE /\ ValidationError(body, FALSE) # ""
            /\ last' = Resp("create", caller, 400, ValidationError(body, FALSE), NoId)
    /\ UNCHANGED <<db, inflight>>

\* whether POST /offers/ reaches serializer.save(), within the model's bounds
CreateOfferAccepts(caller, body) ==
    /\ inflight = NoReq
    /\ OfferPermitted("create", caller)
    /\ ValidationError(body, FALSE) = ""
    /\ nextOfferId <= MaxOffers
    /\ nextDetailId + Len(body.details) - 1 <= MaxDetails

\* POST /offers/ handled as one step: OfferViewSet.create running
\* OfferSerializer.create to its end
CreateOffer(caller, body) ==
    /\ CreateOfferAccepts(caller, body)
    /\ offers' = offers \cup {NewOffer(nextOfferId, caller, body)}
    /\ details' = CreateDetails(details, nextDetailId, body.details, nextOfferId)
    /\ nextOfferId' = nextOfferId + 1
    /\ nextDetailId' = nextDetailId + Len(body.details)
    /\ last' = Resp("create", caller, 201, "", nextOfferId)
    /\ UNCHANGED <<users, profiles, tokens, inflight, trade>>

\* OfferSerializer.create statement by statement, each INSERT committed on its
\* own (no transaction.atomic around them).  First Offer.objects.create:
CreateOfferStart(caller, body) ==
    /\ CreateOfferAccepts(caller, body)
    /\ offers' = offers \cup {NewOffer(nextOfferId, caller, body)}
    /\ nextOfferId' = nextOfferId + 1
    /\ inflight' = [offer |-> nextOfferId, caller |-> caller, rest |-> body.details]
    /\ UNCHANGED <<users, profiles, tokens, details, nextDetailId, last, trade>>

\* one OfferDetail.objects.create of the loop
CreateOfferInsertDetail ==
    /\ inflight # NoReq
    /\ inflight.rest # <<>>
    /\ details' = details \cup {NewDetail(nextDetailId, inflight.offer, Head(inflight.rest))}
    /\ nextDetailId' = nextDetailId + 1
    /\ inflight' = [inflight EXCEPT !.rest = Tail(inflight.rest)]
    /\ UNCHANGED <<users, profiles, tokens, offers, nextOfferId, last, trade>>

\* the loop is over: return offer, 201
CreateOfferFinish ==
    /\ inflight # NoReq
    /\ inflight.rest = <<>>
    /\ last' = Resp("create", inflight.caller, 201, "", inflight.offer)
    /\ inflight' = NoReq
    /\ UNCHANGED db

\* an OfferDetail.objects.create raises (the database refuses the statement):
\* the request ends in a 500 and nothing written before is rolled back
CreateOfferFails ==
    /\ inflight # NoReq
    /\ inflight.rest # <<>>
    /\ last' = Resp("create", inflight.caller, 500, "", inflight.offer)
    /\ inflight' = NoReq
    /\ UNCHANGED db

\* OfferSerializer.update, the top-level fields: validated_data.get(f, instance.f)
MergeOffer(old, body) ==
    [old EXCEPT !.title = Get(body.fields, "title", old.title),
                !.image = Get(body.fields, "image", old.image),
                !.description = Get(body.fields, "description", old.description)]

\* PUT and PATCH /offers/{id}/: OfferViewSet.update / partial_update
UpdateOffer(caller, id, body, partial) ==
    LET action == IF partial THEN "partial_update" ELSE "update" IN
    /\ IF ~OfferPermitted(action, caller)
       THEN /\ last' = Resp(action, caller, 401, "", id)
            /\ UNCHANGED <<offers, details, nextDetailId>>
       ELSE IF ~\E o \in offers : o.id = id
       THEN /\ last' = Resp(action, caller, 404, "", id)
            /\ UNCHANGED <<offers, details, nextDetailId>>
       ELSE IF ValidationError(body, partial) # ""
       THEN /\ last' = Resp(action, caller, 400, ValidationError(body, partial), id)
            /\ UNCHANGED <<offers, details, nextDetailId>>
       ELSE LET instance == CHOOSE o \in offers : o.id = id
                res == IF body.hasDetails
                       THEN ApplyDetails(details, nextDetailId, body.details, id,
                                         ExistingDetails(details, id))
                       ELSE [rows |-> details, next |-> nextDetailId, ok |-> TRUE]
            IN /\ res.next <= MaxDetails + 1
               /\ offers' = (offers \ {instance}) \cup {MergeOffer(instance, body)}
               /\ details' = res.rows
               /\ nextDetailId' = res.next
               /\ last' = Resp(action, caller, IF res.ok THEN 200 ELSE 500, "", id)
    /\ UNCHANGED <<users, profiles, tokens, nextOfferId, inflight, trade>>

\* the delete leaving the rows that reference the offer where they are
DestroyOffer_nocascade(caller, id) ==
    /\ last' = Resp("destroy", caller,
                    IF ~OfferPermitted("destroy", caller) THEN 401
                    ELSE IF ~\E o \in offers : o.id = id THEN 404 ELSE 204, "", id)
    /\ offers' = IF last'.status = 204 THEN {o \in offers : o.id # id} ELSE offers
    /\ UNCHANGED <<users, profiles, tokens, details, orders, nextOfferId, nextDetailId,
                   reviews, nextOrderId, nextReviewId, inflight>>

\* DELETE /offers/{id}/: OfferViewSet.destroy; the details go with the offer
\* and the orders with their detail (on_delete=CASCADE)
DestroyOffer(caller, id) ==
    /\ IF ~OfferPermitted("destroy", caller)
       THEN /\ last' = Resp("destroy", caller, 401, "", id)
            /\ UNCHANGED <<offers, details, orders>>
       ELSE IF ~\E o \in offers : o.id = id
       THEN /\ last' = Resp("destroy", caller, 404, "", id)
            /\ UNCHANGED <<offers, details, orders>>
       ELSE /\ offers' = {o \in offers : o.id # id}
            /\ details' = {d \in details : d.offer # id}
            /\ orders' = {o \in orders : \E d \in details' : d.id = o.offer_detail}
            /\ last' = Resp("destroy", caller, 204, "", id)
    /\ UNCHANGED <<users, profiles, tokens, nextOfferId, nextDetailId, reviews,
                   nextOrderId, nextReviewId, inflight>>

\* the value of a property that returns None
None == -1

\* Python's min over an iterable: the running minimum
RECURSIVE min(_)
min(S) ==
    LET x == CHOOSE v \in S : TRUE IN
    IF S = {x} THEN x
    ELSE LET m == min(S \ {x}) IN IF x < m THEN x ELSE m

\* the price of the offer's first detail row instead of the lowest
min_price_first(offerId) ==
    LET rows == DetailsOf(details, offerId) IN
    IF rows # {}
    THEN (CHOOSE d \in rows : \A e \in rows : d.id <= e.id).price
    ELSE None

\* Offer.min_price
min_price(offerId) ==
    LET rows == DetailsOf(details, offerId) IN
    IF rows # {} THEN min({d.price : d \in rows}) ELSE None

\* Offer.min_delivery_time
min_delivery_time(offerId) ==
    LET rows == DetailsOf(details, offerId) IN
    IF rows # {} THEN min({d.delivery_time_in_days : d \in rows}) ELSE None

\* OfferListSerializer / OfferDetailViewSerializer: the two read-only fields
\* of each offer serialized
SerializeOffers(rows) ==
    {[id |-> o.id, min_price |-> min_price(o.id),
      min_delivery_time |-> min_delivery_time(o.id)] : o \in rows}

\* GET /offers/ (id = NoId) and GET /offers/{id}/: OfferViewSet.list / retrieve
ReadOffer(caller, id) ==
    LET action == IF id = NoId THEN "list" ELSE "retrieve"
        status == IF ~OfferPermitted(action, caller) THEN 401
                  ELSE IF id = NoId \/ \E o \in offers : o.id = id THEN 200
                  ELSE 404
    IN
    /\ last' = [Resp(action, caller, status, "", id) EXCEPT
                   !.mins = IF status # 200 THEN {}
                            ELSE SerializeOffers({o \in offers : id = NoId \/ o.id = id})]
    /\ UNCHANGED <<db, inflight>>

\* ------------------------------------------------------ login and profiles

\* AuthTokenSerializer.validate: authenticate(username=, password=) finds
\* the user whose username and password these are, or nobody
Authenticate(username, password) ==
    {u \in users : u.username = username /\ u.password = password}

\* LoginView.post
Login(username, password) ==
    /\ IF Authenticate(username, password) = {}
       THEN /\ last' = Resp("login", Anonymous, 400, "non_field_errors", NoId)
            /\ tokens' = tokens
       ELSE LET user == CHOOSE u \in Authenticate(username, password) : TRUE IN
            /\ tokens' = GetOrCreateToken(user.id)
            /\ last' = RespT("login", Anonymous, 200, "", user.id,
                             (CHOOSE t \in tokens' : t.user = user.id).key)
    /\ UNCHANGED <<users, profiles, catalogue, trade, inflight>>

\* UserProfile.TYPE_CHOICES
TYPE_CHOICES == {"customer", "business"}

\* UserProfileSerializer: the fields it writes to the UserProfile row, the
\* ones it writes to the linked User row, and Meta.read_only_fields
ProfileWritable == {"file", "location", "tel", "description", "working_hours", "type"}

UserWritable == {"first_name", "last_name"}

ProfileReadOnly == {"user", "username", "email", "created_at"}

\* the profile looked up by lookup_field = 'user__id'
ProfileOf(id) == {p \in profiles : p.user = id}

\* the object permission letting every authenticated user through
IsOwnProfile_anyuser(obj, caller) == TRUE

\* IsOwnProfile.has_object_permission for an unsafe method
IsOwnProfile(obj, caller) == obj.user = caller

\* UserProfileViewSet.get_permissions for update, partial_update and
\* destroy, then get_object: the status of the refusal, 200 when the
\* request goes on
ProfileAccess(caller, id) ==
    IF ~IsAuthenticated(caller) THEN 401
    ELSE IF ProfileOf(id) = {} THEN 404
    ELSE IF ~IsOwnProfile(CHOOSE p \in ProfileOf(id) : TRUE, caller) THEN 403
    ELSE 200

\* UserProfileSerializer.is_valid: no field is required; first_name and
\* last_name are CharFields that refuse '', and type is a ChoiceField
ProfileValidationError(body) ==
    IF \E k \in UserWritable \cap DOMAIN body : body[k] = 0 THEN "first_name"
    ELSE IF "type" \in DOMAIN body /\ body["type"] \notin TYPE_CHOICES THEN "type"
    ELSE ""

\* validated_data keeping the read-only fields of the request
Validated_keepreadonly(body) == body

\* validated_data: the read-only fields of the request are dropped
Validated(body) ==
    [k \in DOMAIN body \cap (ProfileWritable \cup UserWritable) |-> body[k]]

\* UserProfileSerializer.update on the profile row: setattr for every
\* validated field that is not the nested user data
UpdateProfileRow(p, data) ==
    [k \in DOMAIN p |-> IF k \in DOMAIN data \ UserWritable THEN data[k] ELSE p[k]]

\* UserProfileSerializer.update on the linked User row
UpdateUserRow(u, data) ==
    [u EXCEPT !.first_name = Get(data, "first_name", u.first_name),
              !.last_name = Get(data, "last_name", u.last_name)]

\* PUT and PATCH /profile/{id}/: UserProfileViewSet.update / partial_update
UpdateProfile(caller, id, body, partial) ==
    LET action == IF partial THEN "profile_partial_update" ELSE "profile_update" IN
    /\ IF ProfileAccess(caller, id) # 200
       THEN /\ last' = Resp(action, caller, ProfileAccess(caller, id), "", id)
            /\ UNCHANGED <<users, profiles>>
       ELSE IF ProfileValidationError(body) # ""
       THEN /\ last' = Resp(action, caller, 400, ProfileValidationError(body), id)
            /\ UNCHANGED <<users, profiles>>
       ELSE LET instance == CHOOSE p \in ProfileOf(id) : TRUE
                user == CHOOSE u \in users : u.id = instance.user
                data == Validated(body)
            IN /\ users' = (users \ {user}) \cup {UpdateUserRow(user, data)}
               /\ profiles' = (profiles \ {instance}) \cup {UpdateProfileRow(instance, data)}
               /\ last' = Resp(action, caller, 200, "", id)
    /\ UNCHANGED <<tokens, catalogue, trade, inflight>>

\* DELETE /profile/{id}/: UserProfileViewSet.destroy deletes the profile
\* row; the User row and its token stay
DestroyProfile(caller, id) ==
    /\ IF ProfileAccess(caller, id) # 200
       THEN /\ last' = Resp("profile_destroy", caller, ProfileAccess(caller, id), "", id)
            /\ UNCHANGED profiles
       ELSE /\ profiles' = profiles \ ProfileOf(id)
            /\ last' = Resp("profile_destroy", caller, 204, "", id)
    /\ UNCHANGED <<users, tokens, catalogue, trade, inflight>>

\* ------------------------------------------------------------------ orders

\* permissions.IsBusinessUser.has_permission
IsBusinessUser(caller) ==
    /\ IsAuthenticated(caller)
    /\ \E p \in ProfileOf(caller) : p.type = "business"

\* permissions.IsCustomerUser.has_permission
IsCustomerUser(caller) ==
    /\ IsAuthenticated(caller)
    /\ \E p \in ProfileOf(caller) : p.type = "customer"

\* the object permission letting every business user through
IsOrderOwner_anyorder(obj, caller) == TRUE

\* permissions.IsOrderOwner.has_object_permission
IsOrderOwner(obj, caller) == obj.buyer = caller

\* rest_framework.permissions.IsAdminUser: request.user.is_staff
IsAdminUser(caller) == \E u \in users : u.id = caller /\ u.is_staff

OrderOf(id) == {o \in orders : o.id = id}

\* OrderViewSet.get_permissions, then get_object and the object permission:
\* the status of the refusal, 200 when the request goes on
OrderAccess(action, caller, id) ==
    IF ~IsAuthenticated(caller) THEN 401
    ELSE IF action = "create" THEN 200
    ELSE IF action = "destroy" /\ ~IsAdminUser(caller) THEN 403
    ELSE IF action # "destroy" /\ ~IsBusinessUser(caller) THEN 403
    ELSE IF OrderOf(id) = {} THEN 404
    ELSE IF action # "destroy" /\ ~IsOrderOwner(CHOOSE o \in OrderOf(id) : TRUE, caller)
         THEN 403
    ELSE 200

\* OrderSerializer.is_valid: offer_detail_id is required unless the request
\* is partial and must name an OfferDetail row; status is a CharField that
\* refuses ''
OrderValidationError(body, partial) ==
    IF ~partial /\ "offer_detail_id" \notin DOMAIN body THEN "offer_detail_id"
    ELSE IF "offer_detail_id" \in DOMAIN body
              /\ ~\E d \in details : d.id = body["offer_detail_id"]
         THEN "offer_detail_id"
    ELSE IF "status" \in DOMAIN body /\ body["status"] = "" THEN "status"
    ELSE ""

\* serializer.save(buyer=self.request.user): status is a writable field of
\* OrderSerializer, so the row takes the status of the request when there
\* is one and the column default otherwise; buyer and customer_user of the
\* request are no writable fields
NewOrder(id, caller, body) ==
    [id |-> id, buyer |-> caller, offer_detail |-> body["offer_detail_id"],
     status |-> Get(body, "status", "in_progress")]

\* POST /orders/: OrderViewSet.create with perform_create
CreateOrder(caller, body) ==
    /\ IF OrderAccess("create", caller, NoId) # 200
       THEN /\ last' = Resp("order_create", caller, OrderAccess("create", caller, NoId), "", NoId)
            /\ UNCHANGED <<orders, nextOrderId>>
       ELSE IF OrderValidationError(body, FALSE) # ""
       THEN /\ last' = Resp("order_create", caller, 400,
                            OrderValidationError(body, FALSE), NoId)
            /\ UNCHANGED <<orders, nextOrderId>>
       ELSE /\ nextOrderId <= MaxOrders
            /\ orders' = orders \cup {NewOrder(nextOrderId, caller, body)}
            /\ nextOrderId' = nextOrderId + 1
            /\ last' = Resp("order_create", caller, 201, "", nextOrderId)
    /\ UNCHANGED <<accounts, catalogue, reviews, nextReviewId, inflight>>

\* ModelSerializer.update on an Order row
MergeOrder(o, body) ==
    [o EXCEPT !.status = Get(body, "status", o.status),
              !.offer_detail = Get(body, "offer_detail_id", o.offer_detail)]

\* PUT and PATCH /orders/{id}/: OrderViewSet.update / partial_update
UpdateOrder(caller, id, body, partial) ==
    LET action == IF partial THEN "order_partial_update" ELSE "order_update" IN
    /\ IF OrderAccess("update", caller, id) # 200
       THEN /\ last' = Resp(action, caller, OrderAccess("update", caller, id), "", id)
            /\ UNCHANGED orders
       ELSE IF OrderValidationError(body, partial) # ""
       THEN /\ last' = Resp(action, caller, 400, OrderValidationError(body, partial), id)
            /\ UNCHANGED orders
       ELSE LET instance == CHOOSE o \in OrderOf(id) : TRUE IN
            /\ orders' = (orders \ {instance}) \cup {MergeOrder(instance, body)}
            /\ last' = Resp(action, caller, 200, "", id)
    /\ UNCHANGED <<accounts, catalogue, reviews, nextOrderId, nextReviewId, inflight>>

\* DELETE /orders/{id}/: OrderViewSet.destroy, for staff only
DestroyOrder(caller, id) ==
    /\ IF OrderAccess("destroy", caller, id) # 200
       THEN /\ last' = Resp("order_destroy", caller, OrderAccess("destroy", caller, id), "", id)
            /\ UNCHANGED orders
       ELSE /\ orders' = orders \ OrderOf(id)
            /\ last' = Resp("order_destroy", caller, 204, "", id)
    /\ UNCHANGED <<accounts, catalogue, reviews, nextOrderId, nextReviewId, inflight>>

\* OrderSerializer.price, source='offer_detail.price': the price the
\* referenced OfferDetail row has when the order is serialized
OrderPrice(o) == (CHOOSE d \in details : d.id = o.offer_detail).price

\* GET /orders/{id}/: OrderViewSet.retrieve, open to every reader
ReadOrder(caller, id) ==
    /\ last' = IF OrderOf(id) = {}
               THEN Resp("order_retrieve", caller, 404, "", id)
               ELSE [Resp("order_retrieve", caller, 200, "", id) EXCEPT
                        !.price = OrderPrice(CHOOSE o \in OrderOf(id) : TRUE)]
    /\ UNCHANGED <<db, inflight>>

\* the count dropping the filter on status
CountOrders_anystatus(id, status) ==
    Cardinality({o \in orders : o.buyer = id})

\* Order.objects.filter(buyer_id=business_user_id, status=status).count()
CountOrders(id, status) ==
    Cardinality({o \in orders : o.buyer = id /\ o.status = status})

\* OrderCountView.get and CompletedOrderCountView.get, which differ in the
\* status they count: 404 unless the id is that of a User with a profile of
\* type 'business'
OrderCountGet(op, id, status) ==
    /\ IF ~\E u \in users : u.id = id
       THEN last' = RespN(op, Anonymous, 404, id, 0)
       ELSE IF ~\E p \in ProfileOf(id) : p.type = "business"
       THEN last' = RespN(op, Anonymous, 404, id, 0)
       ELSE last' = RespN(op, Anonymous, 200, id, CountOrders(id, status))
    /\ UNCHANGED <<db, inflight>>

OrderCount(id) == OrderCountGet("order_count", id, "in_progress")

CompletedOrderCount(id) == OrderCountGet("completed_order_count", id, "completed")

\* ----------------------------------------------------------------- reviews

\* the object permission letting every authenticated user through
IsReviewOwner_anyreview(obj, caller) == TRUE

\* permissions.IsReviewOwner.has_object_permission
IsReviewOwner(obj, caller) == obj.reviewer = caller

ReviewOf(id) == {r \in reviews : r.id = id}

\* ReviewViewSet.get_permissions, then get_object and the object permission:
\* the status of the refusal, 200 when the request goes on
ReviewAccess(action, caller, id) ==
    IF ~IsAuthenticated(caller) THEN 401
    ELSE IF action = "create" THEN (IF IsCustomerUser(caller) THEN 200 ELSE 403)
    ELSE IF ReviewOf(id) = {} THEN 404
    ELSE IF ~IsReviewOwner(CHOOSE r \in ReviewOf(id) : TRUE, caller) THEN 403
    ELSE 200

\* validate_rating checking the lower end only
validate_rating_nomax(value) == ~(value < 1)

\* ReviewSerializer.validate_rating
validate_rating(value) == ~(value < 1 \/ value > 5)

\* validate_business_user accepting every user
validate_business_user_anyuser(value) == TRUE

\* ReviewSerializer.validate_business_user: the user has a profile and it is
\* of type 'business'
validate_business_user(value) ==
    \E p \in ProfileOf(value) : p.type = "business"

\* ReviewSerializer.is_valid: the fields in error.  business_user and rating
\* are required unless the request is partial; business_user must name a
\* User row (PrimaryKeyRelatedField) and pass validate_business_user, rating
\* must pass validate_rating
ReviewErrors(body, partial) ==
    {f \in {"business_user", "rating"} : ~partial /\ f \notin DOMAIN body}
    \cup {f \in {"business_user"} \cap DOMAIN body :
             \/ ~\E u \in users : u.id = body[f]
             \/ ~validate_business_user(body[f])}
    \cup {f \in {"rating"} \cap DOMAIN body : ~validate_rating(body[f])}

\* the first field in error in the order of Meta.fields, "" if none
ReviewValidationError(body, partial) ==
    IF "business_user" \in ReviewErrors(body, partial) THEN "business_user"
    ELSE IF "rating" \in ReviewErrors(body, partial) THEN "rating"
    ELSE ""

\* serializer.save(reviewer=self.request.user): reviewer is read-only, so
\* the one of the request is dropped; an absent description is ''
NewReview(id, caller, body) ==
    [id |-> id, business_user |-> body["business_user"], reviewer |-> caller,
     rating |-> body["rating"], description |-> Get(body, "description", 0)]

\* POST /reviews/: ReviewViewSet.create with perform_create
CreateReview(caller, body) ==
    /\ IF ReviewAccess("create", caller, NoId) # 200
       THEN /\ last' = Resp("review_create", caller, ReviewAccess("create", caller, NoId),
                            "", NoId)
            /\ UNCHANGED <<reviews, nextReviewId>>
       ELSE IF ReviewErrors(body, FALSE) # {}
       THEN /\ last' = Resp("review_create", caller, 400,
                            ReviewValidationError(body, FALSE), NoId)
            /\ UNCHANGED <<reviews, nextReviewId>>
       ELSE /\ nextReviewId <= MaxReviews
            /\ reviews' = reviews \cup {NewReview(nextReviewId, caller, body)}
            /\ nextReviewId' = nextReviewId + 1
            /\ last' = Resp("review_create", caller, 201, "", nextReviewId)
    /\ UNCHANGED <<accounts, catalogue, orders, nextOrderId, inflight>>

\* ModelSerializer.update on a Review row: the writable fields of the request
MergeReview(r, body) ==
    [r EXCEPT !.business_user = Get(body, "business_user", r.business_user),
              !.rating = Get(body, "rating", r.rating),
              !.description = Get(body, "description", r.description)]

\* PUT and PATCH /reviews/{id}/: ReviewViewSet.update / partial_update
UpdateReview(caller, id, body, partial) ==
    LET action == IF partial THEN "review_partial_update" ELSE "review_update" IN
    /\ IF ReviewAccess("update", caller, id) # 200
       THEN /\ last' = Resp(action, caller, ReviewAccess("update", caller, id), "", id)
            /\ UNCHANGED reviews
       ELSE IF ReviewErrors(body, partial) # {}
       THEN /\ last' = Resp(action, caller, 400, ReviewValidationError(body, partial), id)
            /\ UNCHANGED reviews
       ELSE LET instance == CHOOSE r \in ReviewOf(id) : TRUE IN
            /\ reviews' = (reviews \ {instance}) \cup {MergeReview(instance, body)}
            /\ last' = Resp(action, caller, 200, "", id)
    /\ UNCHANGED <<accounts, catalogue, orders, nextOrderId, nextReviewId, inflight>>

\* DELETE /reviews/{id}/: ReviewViewSet.destroy
DestroyReview(caller, id) ==
    /\ IF ReviewAccess("destroy", caller, id) # 200
       THEN /\ last' = Resp("review_destroy", caller, ReviewAccess("destroy", caller, id),
                            "", id)
            /\ UNCHANGED reviews
       ELSE /\ reviews' = reviews \ ReviewOf(id)
            /\ last' = Resp("review_destroy", caller, 204, "", id)
    /\ UNCHANGED <<accounts, catalogue, orders, nextOrderId, nextReviewId, inflight>>

\* who sends a request: nobody, or a registered user with its token
Callers == {Anonymous} \cup {t.user : t \in tokens}

\* the bodies tried per caller: one is enough to see a request without
\* credentials refused, and the bodies that fail validation are sent by the
\* first user only
BodiesOf(c, bodies, partial) ==
    IF c = Anonymous THEN {Body(TopFields(OfferFields, 1), TRUE, Uniform(1), NoId)}
    ELSE IF c = 1 THEN bodies
    ELSE {b \in bodies : ValidationError(b, partial) = ""}

\* who reads: a client without credentials
Readers == {Anonymous}

Passwords == {1, 2}

Next ==
    \/ \E r \in Registrations, rp \in Passwords :
          Register(r.username, r.email, 1, rp, r.type)
    \/ \E c \in Callers : \E b \in BodiesOf(c, FullBodies, FALSE) : CreateOfferRejected(c, b)
    \/ \E c \in Callers : \E b \in BodiesOf(c, FullBodies, FALSE) : CreateOffer(c, b)
    \/ \E c \in Callers, id \in 1..MaxOffers : \E b \in BodiesOf(c, FullBodies, FALSE) :
          UpdateOffer(c, id, b, FALSE)
    \/ \E c \in Callers, id \in 1..MaxOffers : \E b \in BodiesOf(c, PartialBodies, TRUE) :
          UpdateOffer(c, id, b, TRUE)
    \/ \E c \in Callers, id \in 1..MaxOffers : DestroyOffer(c, id)
    \/ \E c \in Readers, id \in 0..MaxOffers : ReadOffer(c, id)

\* every handler runs to its end before the next request is served
Spec == Init /\ [][Next]_vars

NextSteps ==
    \/ \E r \in Registrations, rp \in Passwords :
          Register(r.username, r.email, 1, rp, r.type)
    \/ \E c \in Callers : \E b \in BodiesOf(c, FullBodies, FALSE) : CreateOfferRejected(c, b)
    \/ \E c \in Callers : \E b \in BodiesOf(c, FullBodies, FALSE) : CreateOfferStart(c, b)
    \/ CreateOfferInsertDetail
    \/ CreateOfferFinish
    \/ CreateOfferFails
    \/ \E c \in Readers, id \in 0..MaxOffers : ReadOffer(c, id)

\* POST /offers/ runs statement by statement under autocommit, and reads of
\* other requests are served between its statements
SpecSteps == Init /\ [][NextSteps]_vars

\* the usernames and passwords tried at POST /auth/login/
Usernames == {r.username : r \in Registrations}

\* the ids a request names: the users there can be, and one there is not
UserIds == 1..(Cardinality(Usernames) + 1)

\* bodies of PUT and PATCH /profile/{id}/: writable fields alone, then with
\* the read-only fields beside them
ProfileBodies ==
    { [location |-> 1],
      [type |-> "business"],
      [first_name |-> 1, tel |-> 1],
      [type |-> "gold"],
      [user |-> 2, username |-> "b", email |-> "z", created_at |-> 3, location |-> 1],
      [created_at |-> 3],
      [email |-> "z", type |-> "customer"] }

NextAuth ==
    \/ \E r \in Registrations, rp \in Passwords :
          Register(r.username, r.email, 1, rp, r.type)
    \/ \E u \in Usernames, p \in Passwords : Login(u, p)
    \/ \E c \in Callers, id \in UserIds, b \in ProfileBodies : UpdateProfile(c, id, b, FALSE)
    \/ \E c \in Callers, id \in UserIds, b \in ProfileBodies : UpdateProfile(c, id, b, TRUE)
    \/ \E c \in Callers, id \in UserIds : DestroyProfile(c, id)

\* the requests of auth_app, each handler running to its end
SpecAuth == Init /\ [][NextAuth]_vars

\* bodies of POST, PUT and PATCH /orders/: the detail ordered, one that is
\* no row, a status of the client's choosing, and a buyer and customer_user
\* the client may try to smuggle in
OrderBodies ==
    { [offer_detail_id |-> 1],
      [offer_detail_id |-> 2, status |-> "completed"],
      [offer_detail_id |-> 1, buyer |-> 1, customer_user |-> 1],
      [offer_detail_id |-> MaxDetails + 1] }

OrderPatches ==
    { [status |-> "completed"], [status |-> "in_progress"], [offer_detail_id |-> 3] }

\* the offer the orders are placed on
OrderedOffer == Body(TopFields(OfferFields, 1), TRUE, Uniform(1), NoId)

NextOrders ==
    \/ \E r \in Registrations : Register(r.username, r.email, 1, 1, r.type)
    \/ \E c \in Callers : DestroyProfile(c, c)
    \/ \E c \in Callers \ {Anonymous} : CreateOffer(c, OrderedOffer)
    \/ \E c \in Callers, b \in OrderBodies : CreateOrder(c, b)
    \/ \E c \in Callers, id \in 1..MaxOrders, b \in OrderBodies : UpdateOrder(c, id, b, FALSE)
    \/ \E c \in Callers, id \in 1..MaxOrders, b \in OrderPatches : UpdateOrder(c, id, b, TRUE)
    \/ \E c \in Callers, id \in 1..MaxOrders : DestroyOrder(c, id)
    \/ \E id \in UserIds : OrderCount(id)
    \/ \E id \in UserIds : CompletedOrderCount(id)

\* the requests about orders, each handler running to its end
SpecOrders == Init /\ [][NextOrders]_vars

\* bodies of POST and PUT /reviews/: ratings inside and outside 1..5, a
\* reviewer the client may try to smuggle in, and a body without rating
ReviewBodies ==
    { [business_user |-> 1, rating |-> 5, description |-> 1],
      [business_user |-> 1, rating |-> 1, reviewer |-> 1],
      [business_user |-> 2, rating |-> 3],
      [business_user |-> 1, rating |-> 6],
      [business_user |-> 2, rating |-> 0],
      [business_user |-> 3, rating |-> 7],
      [business_user |-> 1] }

\* bodies of PATCH /reviews/{id}/
ReviewPatches ==
    { [rating |-> 4], [rating |-> 6], [rating |-> 0], [description |-> 2],
      [business_user |-> 2], [reviewer |-> 2, rating |-> 2] }

NextReviews ==
    \/ \E r \in Registrations : Register(r.username, r.email, 1, 1, r.type)
    \/ \E c \in Callers : DestroyProfile(c, c)
    \/ \E c \in Callers, b \in ReviewBodies : CreateReview(c, b)
    \/ \E c \in Callers, id \in 1..MaxReviews, b \in ReviewBodies : UpdateReview(c, id, b, FALSE)
    \/ \E c \in Callers, id \in 1..MaxReviews, b \in ReviewPatches : UpdateReview(c, id, b, TRUE)
    \/ \E c \in Callers, id \in 1..MaxReviews : DestroyReview(c, id)

\* the requests about reviews, each handler running to its end
SpecReviews == Init /\ [][NextReviews]_vars

\* bodies of PATCH /profile/{id}/ that write the profile's type
TypeBodies == { [type |-> "business"], [type |-> "customer"] }

NextReputation ==
    \/ \E r \in Registrations : Register(r.username, r.email, 1, 1, r.type)
    \/ \E c \in Callers, b \in TypeBodies : UpdateProfile(c, c, b, TRUE)
    \/ \E c \in Callers, b \in ReviewBodies : CreateReview(c, b)
    \/ \E c \in Callers, id \in 1..MaxReviews, b \in ReviewPatches : UpdateReview(c, id, b, TRUE)
    \/ \E c \in Callers, id \in 1..MaxReviews : DestroyReview(c, id)

\* registrations, changes of a profile's type and the requests about
\* reviews, each handler running to its end
SpecReputation == Init /\ [][NextReputation]_vars

\* bodies of PATCH /offers/{id}/ that raise the price of one tier
PriceBodies ==
    { Body(TopFields({}, 1), TRUE, <<Entry({"price"}, 2, t)>>, NoId) :
          t \in OFFER_TYPE_CHOICES }

NextRead ==
    \/ NextSteps
    \/ \E c \in Callers \ {Anonymous}, id \in 1..MaxOffers, b \in PriceBodies :
          UpdateOffer(c, id, b, TRUE)

\* offers read while they are created statement by statement and after
\* their prices were changed
SpecRead == Init /\ [][NextRead]_vars

\* bodies of PATCH /offers/{id}/ on an offer with orders: a tier's price
\* raised, and an entry without offer_type
MarketPatches ==
    PriceBodies \cup
    { Body(TopFields({}, 1), TRUE, <<Entry(NotNullFields, 1, "None")>>, NoId) }

\* bodies of POST /reviews/ beside the orders
MarketReviews ==
    {b \in ReviewBodies : DOMAIN b = {"business_user", "rating"}}

NextMarket ==
    \/ \E r \in Registrations : Register(r.username, r.email, 1, 1, r.type)
    \/ \E c \in Callers \ {Anonymous} : CreateOffer(c, OrderedOffer)
    \/ \E c \in Callers, id \in 1..MaxOffers, b \in MarketPatches : UpdateOffer(c, id, b, TRUE)
    \/ \E c \in Callers \ {Anonymous}, id \in 1..MaxOffers : UpdateOffer(c, id, OrderedOffer, FALSE)
    \/ \E c \in Callers, id \in 1..MaxOffers : DestroyOffer(c, id)
    \/ \E c \in Callers \ {Anonymous}, b \in OrderBodies : CreateOrder(c, b)
    \/ \E c \in Readers, id \in 1..MaxOrders : ReadOrder(c, id)
    \/ \E c \in Callers \ {Anonymous}, b \in MarketReviews : CreateReview(c, b)

\* offers updated and destroyed while orders are placed on their details,
\* each handler running to its end
SpecMarket == Init /\ [][NextMarket]_vars

\* ------------------------------------------------------------------ claims

MutatingActions == {"create", "update", "partial_update", "destroy"}

\* the tiers a details list names, an entry without offer_type naming none
NamedTypes(l) == {Get(l[i], "offer_type", "None") : i \in 1..Len(l)}

\* C1: when a CreateOffer request has succeeded, the offer it returned has
\* exactly 3 detail rows, and their offer_types are basic, standard, premium
C1_CreatedOfferHasThreeTiers ==
    (last.op = "create" /\ last.status = 201) =>
        /\ \E o \in offers : o.id = last.id
        /\ Cardinality(DetailsOf(details, last.id)) = 3
        /\ TypesOf(details, last.id) = {"basic", "standard", "premium"}

C1_Witness ==
    /\ last.op = "create" /\ last.status = 201
    /\ \E d \in DetailsOf(details, last.id) : d.offer_type = "premium" /\ d.price = 2

\* C2: no stored Offer ever has fewer than 3 OfferDetail rows, also while
\* its creation is under way or after one of its INSERTs failed
C2_NoOfferWithFewerThanThreeDetails ==
    \A o \in offers : Cardinality(DetailsOf(details, o.id)) >= 3

\* C3: after a successful full update (PUT) the offer has exactly 3 detail
\* rows, one per tier
C3_ThreeTiersAfterFullUpdate ==
    (last.op = "update" /\ last.status = 200) =>
        /\ Cardinality(DetailsOf(details, last.id)) = 3
        /\ TypesOf(details, last.id) = {"basic", "standard", "premium"}

\* C4: no two detail rows of one offer have the same offer_type
C4_OfferTypeUniqueWithinOffer ==
    \A d1 \in details, d2 \in details :
        (d1.offer = d2.offer /\ d1.id # d2.id) => d1.offer_type # d2.offer_type

\* what C5 calls a well-formed details list
ThreeDistinctTiers(body) ==
    /\ body.hasDetails
    /\ Len(body.details) = 3
    /\ NamedTypes(body.details) = {"basic", "standard", "premium"}

\* C5: a CreateOffer of an authenticated caller whose details are not exactly
\* 3 entries naming basic, standard and premium ends in a 400 and creates no
\* Offer row and no OfferDetail row
C5_BadDetailsRejected ==
    [][last'.op = "create" =>
          \A c \in {last'.caller} \ {Anonymous}, b \in FullBodies :
              (~ThreeDistinctTiers(b) /\ (CreateOfferRejected(c, b) \/ CreateOffer(c, b)))
              => (last'.status = 400 /\ offers' = offers /\ details' = details)]_vars

C5_Witness ==
    /\ last.op = "create" /\ last.status = 400 /\ last.err = "details"
    /\ last.caller # Anonymous

\* the value sub-field f of a row of type t has after the list l was merged
\* into it: that of the last entry of l naming t and carrying f, else old
RECURSIVE LastProvided(_, _, _, _)
LastProvided(l, t, f, old) ==
    IF l = <<>> THEN old
    ELSE LET e == l[Len(l)]
         IN IF Get(e, "offer_type", "None") = t /\ f \in DOMAIN e
            THEN e[f]
            ELSE LastProvided(SubSeq(l, 1, Len(l) - 1), t, f, old)

\* what C6 says of one successful update of offer id with body b
MergedByTier(id, b) ==
    LET old == DetailsOf(details, id)
        new == DetailsOf(details', id)
        added == {d \in new : \A r \in old : r.id # d.id}
        unmatched == {i \in 1..Len(b.details) :
                         Get(b.details[i], "offer_type", "None") \notin TypesOf(details, id)}
    IN /\ details' \ new = details \ old
       /\ \A r \in old : \E d \in new :
             /\ d.id = r.id /\ d.offer_type = r.offer_type
             /\ \A f \in DetailFields : d[f] = LastProvided(b.details, r.offer_type, f, r[f])
       /\ Cardinality(added) = Cardinality(unmatched)
       /\ \A d \in added : d.offer_type \notin OFFER_TYPE_CHOICES

C7_OwnerIsCreator ==
    [][/\ (last'.op = "create" /\ last'.status = 201) =>
             \A c \in Callers : \A b \in FullBodies :
                 (c = last'.caller /\ CreateOffer(c, b)) =>
                     \E o \in offers' : o.id = last'.id /\ o.owner = c /\ c # Anonymous
       /\ \A o \in offers, p \in offers' : o.id = p.id => o.owner = p.owner]_vars

C7_Witness ==
    /\ last.op = "partial_update" /\ last.status = 200
    /\ \E o \in offers : o.id = last.id /\ o.owner # last.caller /\ o.owner = 2

\* C8: a mutating Offer action without credentials is answered 401 and
\* changes no Offer or OfferDetail row; with credentials it is never refused
\* for want of permission, owner or not; list and retrieve are never refused
C8_AuthenticationIsTheOnlyRequirement ==
    /\ [](/\ (last.op \in MutatingActions /\ last.caller = Anonymous) => last.status = 401
          /\ (last.op \in MutatingActions /\ last.caller # Anonymous) =>
                 last.status \notin {401, 403}
          /\ last.op \in {"list", "retrieve"} => last.status \notin {401, 403})
    /\ [][(last'.op \in MutatingActions /\ last'.caller = Anonymous) =>
             (offers' = offers /\ details' = details)]_vars

C8_Witness ==
    /\ last.op = "update" /\ last.status = 200
    /\ \E o \in offers : o.id = last.id /\ o.owner # last.caller

EmailTaken(email) == \E u \in users : u.email = email

\* C9: a registration whose username or email is that of an existing User
\* ends in a 400 and creates no User, Profile or token
C9_DuplicateRegistrationRejected ==
    [][last'.op = "register" =>
          \A r \in Registrations, rp \in Passwords :
              (Register(r.username, r.email, 1, rp, r.type)
                 /\ (UsernameTaken(r.username) \/ EmailTaken(r.email)))
              => (last'.status = 400 /\ UNCHANGED <<users, profiles, tokens>>)]_vars

\* C10: a successful Register creates one User with exactly one Profile, of
\* the requested type, and one token, whose key the response carries, and
\* touches nobody else's rows; a Register with mismatching passwords ends in
\* a 400 and creates nothing
C10_RegisterCreatesUserProfileToken ==
    [][last'.op = "register" =>
          \A r \in Registrations, rp \in Passwords :
              Register(r.username, r.email, 1, rp, r.type) =>
                  IF rp # 1
                  THEN last'.status = 400 /\ UNCHANGED <<users, profiles, tokens>>
                  ELSE last'.status = 201 =>
                      /\ \E u \in users' \ users :
                            /\ u.id = last'.id /\ u.username = r.username
                            /\ users' = users \cup {u}
                      /\ \E p \in profiles' \ profiles :
                            /\ p.user = last'.id /\ p.type = r.type
                            /\ profiles' = profiles \cup {p}
                      /\ \A p \in profiles : p.user # last'.id
                      /\ tokens' \ tokens = {[user |-> last'.id, key |-> last'.token]}
                      /\ \A t \in tokens : t.user # last'.id /\ t.key # last'.token
                      /\ profiles \subseteq profiles' /\ tokens \subseteq tokens']_vars

C10_Witness ==
    /\ last.op = "register" /\ last.status = 201 /\ last.id = 2
    /\ \E p \in profiles : p.user = last.id /\ p.type = "business"
    /\ \E t \in tokens : t.user = last.id /\ t.key = last.token

\* C11: a Login with bad credentials ends in a 400 and creates no token; a
\* Login with good credentials returns a token of that user, the one the
\* user had when there was one, and creates a token only when there was
\* none.  No token is ever removed or changed and no user has two, and a
\* successful Register returns a stored token of its user: so every Login
\* of a user returns the token of the user's Register and of every earlier
\* Login.
C11_LoginReturnsTheOneToken ==
    [][/\ \A t1, t2 \in tokens' : t1.user = t2.user => t1 = t2
       /\ tokens \subseteq tokens'
       /\ (last'.op = "register" /\ last'.status = 201) =>
              [user |-> last'.id, key |-> last'.token] \in tokens'
       /\ last'.op = "login" =>
              \A u \in Usernames, p \in Passwords :
                  Login(u, p) =>
                      IF \E x \in users : x.username = u /\ x.password = p
                      THEN /\ last'.status = 200
                           /\ \E x \in users : x.username = u /\ x.id = last'.id
                           /\ [user |-> last'.id, key |-> last'.token] \in tokens'
                           /\ IF \E t \in tokens : t.user = last'.id
                              THEN tokens' = tokens
                              ELSE tokens' \ tokens =
                                       {[user |-> last'.id, key |-> last'.token]}
                      ELSE last'.status = 400 /\ tokens' = tokens]_vars

C11_Witness ==
    /\ last.op = "login" /\ last.status = 200 /\ last.id = 2
    /\ [user |-> 2, key |-> last.token] \in tokens
    /\ Cardinality(tokens) = 2

ProfileMutations == {"profile_update", "profile_partial_update", "profile_destroy"}

\* C12: an update, partial update or destroy of a Profile goes through only
\* when the caller is authenticated as the Profile's own user; from every
\* other caller it is refused (401, 403, or 404 when there is no such
\* Profile) and no Profile and no User row changes
C12_OnlyOwnProfileIsWritten ==
    [][last'.op \in ProfileMutations =>
          /\ last'.status \in {200, 204, 400} =>
                 (IsAuthenticated(last'.caller) /\ last'.caller = last'.id)
          /\ last'.caller # last'.id =>
                 /\ last'.status \in {401, 403, 404}
                 /\ profiles' = profiles /\ users' = users]_vars

C12_Witness ==
    /\ last.op \in ProfileMutations /\ last.status = 403
    /\ last.caller # last.id
    /\ ProfileOf(last.id) # {}

ProfileUpdates == {"profile_update", "profile_partial_update"}

\* the stored values behind the read-only fields stay as they are: every
\* profile keeps its user link and created_at, every user its username and
\* email
ReadOnlyUnchanged ==
    /\ \A p \in profiles : \E q \in profiles' :
           q.user = p.user /\ q.created_at = p.created_at
    /\ \A q \in profiles' : \E p \in profiles : p.user = q.user
    /\ \A u \in users : \E v \in users' :
           v.id = u.id /\ v.username = u.username /\ v.email = u.email

\* C13, as stated: an UpdateProfile request carrying a read-only field is
\* rejected, and the stored username, email, created_at and user link are
\* unchanged
C13_ReadOnlyFieldsRejected ==
    [][last'.op \in ProfileUpdates =>
          \A b \in {x \in ProfileBodies : DOMAIN x \cap ProfileReadOnly # {}},
             partial \in {last'.op = "profile_partial_update"} :
              UpdateProfile(last'.caller, last'.id, b, partial)
              => (last'.status \in {400, 401, 403, 404} /\ ReadOnlyUnchanged)]_vars

\* the request body without its read-only fields
WithoutReadOnly(b) == [k \in DOMAIN b \ ProfileReadOnly |-> b[k]]

\* C13, amended: an UpdateProfile request carrying a read-only field is
\* answered, and changes the stored rows, as the same request without
\* these fields (a 200 when the caller owns the profile and the other
\* fields are valid), and the stored username, email, created_at and user
\* link are unchanged
C13_ReadOnlyFieldsIgnored ==
    [][last'.op \in ProfileUpdates =>
          \A b \in {x \in ProfileBodies : DOMAIN x \cap ProfileReadOnly # {}},
             partial \in {last'.op = "profile_partial_update"} :
              UpdateProfile(last'.caller, last'.id, b, partial)
              => /\ ReadOnlyUnchanged
                 /\ UpdateProfile(last'.caller, last'.id, WithoutReadOnly(b), partial)
                 /\ (last'.caller = last'.id /\ ProfileOf(last'.id) # {}
                       /\ ProfileValidationError(WithoutReadOnly(b)) = "")
                    => last'.status = 200]_vars

C13_Witness ==
    /\ last.op \in ProfileUpdates /\ last.status = 200
    /\ \E u \in users : u.id = last.id /\ u.username = "a" /\ u.email = "x"
    /\ \E p \in profiles : p.user = last.id /\ p.type = "customer" /\ p.created_at = last.id

\* C14: every Order a CreateOrder request creates has the caller as its
\* buyer and the status 'in_progress', whatever the request body carries
C14_CreatedOrderIsCallersInProgress ==
    [][(last'.op = "order_create" /\ last'.status = 201) =>
          /\ orders' # orders
          /\ \A o \in orders' \ orders :
                 o.buyer = last'.caller /\ o.status = "in_progress"]_vars

OrderUpdates == {"order_update", "order_partial_update"}

\* the caller is authenticated, has a profile of type 'business' and is the
\* buyer of the order
BusinessBuyer(caller, id) ==
    /\ \E t \in tokens : t.user = caller
    /\ \E p \in profiles : p.user = caller /\ p.type = "business"
    /\ \E o \in orders : o.id = id /\ o.buyer = caller

\* C15: an update or partial update of an Order goes through only for an
\* authenticated caller with a business profile who is the Order's buyer;
\* from every other caller it is refused (401, 403, or 404 when there is no
\* such Order) and no Order changes its status, offer_detail or buyer
C15_OrderUpdateOnlyByBusinessBuyer ==
    [][last'.op \in OrderUpdates =>
          /\ last'.status \in {200, 400} => BusinessBuyer(last'.caller, last'.id)
          /\ ~BusinessBuyer(last'.caller, last'.id) =>
                 (last'.status \in {401, 403, 404} /\ orders' = orders)]_vars

C15_Witness ==
    /\ last.op \in OrderUpdates /\ last.status = 403
    /\ \E p \in profiles : p.user = last.caller /\ p.type = "business"
    /\ \E o \in orders : o.id = last.id /\ o.buyer # last.caller

\* C16: OrderCount and CompletedOrderCount answer 404 when the id is that of
\* no User, of a User without profile or of a User whose profile is not of
\* type 'business', and otherwise the number of Orders with that buyer_id
\* and the status 'in_progress' (resp. 'completed'); they change no row
C16_OrderCounts ==
    [][last'.op \in {"order_count", "completed_order_count"} =>
          LET id == last'.id
              wanted == IF last'.op = "order_count" THEN "in_progress" ELSE "completed"
          IN /\ UNCHANGED db
             /\ IF /\ \E u \in users : u.id = id
                   /\ \E p \in profiles : p.user = id /\ p.type = "business"
                THEN /\ last'.status = 200
                     /\ last'.count =
                            Cardinality({o \in orders : o.buyer = id /\ o.status = wanted})
                ELSE last'.status = 404]_vars

C16_Witness ==
    /\ last.op = "completed_order_count" /\ last.status = 200 /\ last.count = 1
    /\ Cardinality({o \in orders : o.buyer = last.id}) = 2

\* the user a review body names has a profile of type 'business'
TargetIsBusiness(b) ==
    /\ "business_user" \in DOMAIN b
    /\ \E p \in profiles : p.user = b["business_user"] /\ p.type = "business"

\* C17: a CreateReview request gets past the permissions only when the
\* caller is authenticated and has a customer profile; when the business_user
\* it names has no profile or one that is not of type 'business', no Review
\* is created and the permitted caller gets a validation error on
\* business_user; a Review it creates has the caller as its reviewer,
\* whatever the body carries
C17_CreateReviewByCustomerForBusiness ==
    [][last'.op = "review_create" =>
          /\ last'.status \in {201, 400} =>
                 /\ \E t \in tokens : t.user = last'.caller
                 /\ \E p \in profiles : p.user = last'.caller /\ p.type = "customer"
          /\ \A b \in ReviewBodies :
                 CreateReview(last'.caller, b) =>
                     /\ ~TargetIsBusiness(b) =>
                            /\ reviews' = reviews
                            /\ last'.status \in {400, 401, 403}
                            /\ last'.status = 400 => last'.err = "business_user"
                     /\ last'.status = 201 =>
                            \E r \in reviews' \ reviews :
                                /\ r.id = last'.id /\ r.reviewer = last'.caller
                                /\ reviews' = reviews \cup {r}]_vars

C17_Witness ==
    /\ last.op = "review_create" /\ last.status = 400 /\ last.err = "business_user"
    /\ Cardinality(users) = 2
    /\ \E u \in users : \A p \in profiles : p.user # u.id
    /\ \A p \in profiles : p.type = "customer"

ReviewWrites == {"review_create", "review_update", "review_partial_update"}

\* C18: every stored Review has a rating in 1..5; a CreateReview or
\* UpdateReview (full or partial) whose rating is outside 1..5 leaves the
\* Reviews as they are, and when the request gets past the permissions it
\* is answered 400 with an error on the rating field
C18_RatingBetweenOneAndFive ==
    [][/\ \A r \in reviews' : r.rating \in 1..5
       /\ last'.op \in ReviewWrites =>
              \A b \in {x \in ReviewBodies \cup ReviewPatches :
                           "rating" \in DOMAIN x /\ x["rating"] \notin 1..5} :
                  ( \/ last'.op = "review_create" /\ CreateReview(last'.caller, b)
                    \/ last'.op = "review_update"
                          /\ UpdateReview(last'.caller, last'.id, b, FALSE)
                    \/ last'.op = "review_partial_update"
                          /\ UpdateReview(last'.caller, last'.id, b, TRUE) )
                  => /\ reviews' = reviews
                     /\ last'.status \in {400, 401, 403, 404}
                     /\ last'.status = 400 =>
                            "rating" \in ReviewErrors(b, last'.op = "review_partial_update")]_vars

C18_Witness ==
    /\ last.op = "review_partial_update" /\ last.status = 400 /\ last.err = "rating"
    /\ \E r \in reviews : r.id = last.id /\ r.reviewer = last.caller

ReviewMutations == {"review_update", "review_partial_update", "review_destroy"}

\* C19: an update, partial update or delete of a Review by an authenticated
\* caller who is not its reviewer is answered 403 and leaves the Reviews as
\* they are; and no request changes the reviewer of a Review
C19_OnlyTheReviewerWrites ==
    [][/\ ( /\ last'.op \in ReviewMutations
            /\ \E t \in tokens : t.user = last'.caller
            /\ \E r \in reviews : r.id = last'.id /\ r.reviewer # last'.caller )
          => (last'.status = 403 /\ reviews' = reviews)
       /\ \A r \in reviews, q \in reviews' : q.id = r.id => q.reviewer = r.reviewer]_vars

C19_Witness ==
    /\ last.op = "review_destroy" /\ last.status = 403
    /\ \E r \in reviews : r.id = last.id /\ r.reviewer # last.caller

\* C20: there is at most one Review for a pair of reviewer and business_user
C20_OneReviewPerPair ==
    \A r1, r2 \in reviews :
        (r1.reviewer = r2.reviewer /\ r1.business_user = r2.business_user) => r1 = r2

\* C21: the business_user of every stored Review has a profile of type
\* 'business'
C21_ReviewedUserIsBusiness ==
    \A r \in reviews :
        \E p \in profiles : p.user = r.business_user /\ p.type = "business"

\* C26: no stored Review has the same User as reviewer and business_user
C26_NoSelfReview ==
    \A r \in reviews : r.reviewer # r.business_user

\* C22: a CreateOffer request succeeds only for a caller with a profile of
\* type 'business', and a CreateOrder request only for a caller with a
\* profile of type 'customer'
C22_OffersByBusinessOrdersByCustomers ==
    [][/\ (last'.op = "create" /\ last'.status = 201) =>
              \E p \in profiles : p.user = last'.caller /\ p.type = "business"
       /\ (last'.op = "order_create" /\ last'.status = 201) =>
              \E p \in profiles : p.user = last'.caller /\ p.type = "customer"]_vars

\* C23: a list or retrieve of offers reports, for each Offer it returns, the
\* lowest price and the lowest delivery_time_in_days of the Offer's current
\* OfferDetail rows, and None for both when the Offer has no rows
C23_MinOverCurrentDetails ==
    [][\A c \in Readers, id \in 0..MaxOffers :
          (ReadOffer(c, id) /\ last'.status = 200) =>
              /\ {m.id : m \in last'.mins} =
                     {o.id : o \in {x \in offers : id = NoId \/ x.id = id}}
              /\ \A m \in last'.mins :
                     LET rows == {d \in details : d.offer = m.id} IN
                     IF rows = {}
                     THEN m.min_price = None /\ m.min_delivery_time = None
                     ELSE /\ \E d \in rows : d.price = m.min_price
                          /\ \A d \in rows : m.min_price <= d.price
                          /\ \E d \in rows : d.delivery_time_in_days = m.min_delivery_time
                          /\ \A d \in rows : m.min_delivery_time <= d.delivery_time_in_days]_vars

C23_Witness ==
    /\ last.op = "retrieve" /\ last.status = 200
    /\ last.mins = {[id |-> last.id, min_price |-> 2, min_delivery_time |-> 1]}
    /\ \A d \in details : d.price = 2 /\ d.delivery_time_in_days = 1

\* C24: an UpdateOffer request, full or partial, deletes no OfferDetail row
\* and no Order: every detail row is still there, on the same Offer, and
\* every Order still references the row it referenced; a retrieved Order
\* shows the price that row has now
C24_UpdateKeepsDetailsAndOrders ==
    [][/\ last'.op \in {"update", "partial_update"} =>
              /\ \A d \in details : \E e \in details' : e.id = d.id /\ e.offer = d.offer
              /\ orders' = orders
              /\ \A o \in orders' : \E e \in details' : e.id = o.offer_detail
       /\ \A c \in Readers, id \in 1..MaxOrders :
              (ReadOrder(c, id) /\ last'.status = 200) =>
                  \E o \in orders, d \in details :
                      o.id = id /\ d.id = o.offer_detail /\ last'.price = d.price]_vars

C24_Witness ==
    /\ last.op = "order_retrieve" /\ last.status = 200 /\ last.price = 2
    /\ \E o \in orders : o.id = last.id /\ o.status = "in_progress"

\* every row references rows that exist
ReferencesExist ==
    /\ \A o \in offers : \E u \in users : u.id = o.owner
    /\ \A d \in details : \E o \in offers : o.id = d.offer
    /\ \A o \in orders :
           /\ \E d \in details : d.id = o.offer_detail
           /\ \E u \in users : u.id = o.buyer
    /\ \A r \in reviews :
           /\ \E u \in users : u.id = r.reviewer
           /\ \E u \in users : u.id = r.business_user

\* C25: every OfferDetail references an existing Offer, every Order an
\* existing OfferDetail and buyer, every Review an existing reviewer and
\* business_user; the step that destroys an Offer removes its OfferDetail
\* rows and the Orders placed on them, and no other row
C25_ReferentialIntegrity ==
    [][/\ ReferencesExist'
       /\ (last'.op = "destroy" /\ last'.status = 204) =>
              /\ offers' = {o \in offers : o.id # last'.id}
              /\ details' = {d \in details : d.offer # last'.id}
              /\ orders' = {o \in orders :
                               \A d \in details : d.id = o.offer_detail => d.offer # last'.id}
              /\ UNCHANGED <<users, profiles, reviews>>]_vars

C25_Witness ==
    /\ last.op = "destroy" /\ last.status = 204
    /\ nextOrderId > 1 /\ orders = {} /\ details = {}
    /\ reviews # {}
====
